---- MODULE Spec2Model ----
(***************************************************************************)
(* Model of the mock Lightning node of ldk-mcp: the LightningService class *)
(* of src/src/services/lightningService.ts (channel and payment            *)
(* registries, node-info counters, the deferred close timer, and the       *)
(* JSON/base64 backup and restore of that state), and the tool handlers   *)
(* of src/src/tools that call it, each through the LightningService       *)
(* object its own module constructs.                                       *)
(*                                                                         *)
(* JavaScript objects are modelled with their identity: a Channel object   *)
(* lives in `heap` at an address, the registry Map and the closures of     *)
(* pending close timers hold addresses.  A Map is a sequence of            *)
(* <<key, value>> pairs in insertion order.                                *)
(***************************************************************************)
EXTENDS Integers, Sequences, FiniteSets, TLC

----------------------------------------------------------------------------
(* Bounds of the model                                                     *)

\* Calls of the service (createChannel, closeChannel, payInvoice, backupState,
\* restoreState) in one run.
MaxCalls == 4
\* Steps of the wall clock.
MaxTicks == 1

----------------------------------------------------------------------------
(* Program constants                                                       *)

\* setTimeout(..., 5000) in closeChannel
CloseDelayMs == 5000

\* The wall clock advances in steps of one close delay.
TickMs == CloseDelayMs

\* JavaScript `undefined`, JSON `null`, and a key that a JSON object lacks.
UNDEFINED == "undefined"
NULL == "null"
ABSENT == "<absent>"

\* ChannelState (src/src/types/lightning.ts)
Open == "open"
Closing == "closing"
Closed == "closed"

\* PaymentStatus.Succeeded
Succeeded == "succeeded"

----------------------------------------------------------------------------
(* Inputs                                                                  *)

Peers == {"02peer"}

\* <<capacityMsat, pushMsat>> of a createChannel call.
ChannelArgs == {<<1000000, 100000>>, <<20000000, 20000000>>}

\* Outcomes of crypto.randomBytes(32) in payInvoice.
Preimages == {"r1", "r2"}

----------------------------------------------------------------------------
(* Map<K, V>: insertion-ordered sequence of <<key, value>> pairs            *)

MapKeys(m) == {m[i][1] : i \in 1..Len(m)}

MapHas(m, k) == \E i \in 1..Len(m) : m[i][1] = k

MapIndex(m, k) == CHOOSE i \in 1..Len(m) : m[i][1] = k

MapGet(m, k) == m[MapIndex(m, k)][2]

\* Map.prototype.set: an existing key keeps its position.
MapSet(m, k, v) ==
    IF MapHas(m, k) THEN [m EXCEPT ![MapIndex(m, k)] = <<k, v>>]
    ELSE Append(m, <<k, v>>)

\* Mutant of MapDelete: the entry stays.
MapDeleteKeeps(m, k) == m

\* Map.prototype.delete: no effect on a key the map lacks.
MapDelete(m, k) == SelectSeq(m, LAMBDA e : e[1] # k)

MapValues(m) == [i \in 1..Len(m) |-> m[i][2]]

----------------------------------------------------------------------------
(* JSON text and base64                                                    *)

\* JSON.stringify of a value that is undefined as an object member drops the
\* member; as an array element it writes null.
StringifyMember(v) == IF v = UNDEFINED THEN ABSENT ELSE v

StringifyElement(v) == IF v = UNDEFINED THEN NULL ELSE v

\* Reading a member the parsed object lacks gives undefined.
ReadMember(v) == IF v = ABSENT THEN UNDEFINED ELSE v

\* A member that holds a list of [key, value] pairs, something that is not
\* iterable, or that the object lacks.
JsonArray(items) == [tag |-> "array", items |-> items]
JsonNumber == [tag |-> "number", items |-> <<>>]
JsonAbsent == [tag |-> "absent", items |-> <<>>]

\* The nodeInfo member of a JSON text that has none.
JsonNoNodeInfo ==
    [defined |-> FALSE, nodeId |-> ABSENT, alias |-> ABSENT,
     numChannels |-> 0, numUsableChannels |-> 0]

\* JSON texts: one JSON.parse rejects, the text "null", and an object with
\* the members of a backup.
JsonGarbage ==
    [kind |-> "garbage", nodeInfo |-> JsonNoNodeInfo, channels |-> JsonAbsent,
     payments |-> JsonAbsent, timestamp |-> 0]

JsonNull ==
    [kind |-> "null", nodeInfo |-> JsonNoNodeInfo, channels |-> JsonAbsent,
     payments |-> JsonAbsent, timestamp |-> 0]

JsonObject(ni, chs, pays, ts) ==
    [kind |-> "object", nodeInfo |-> ni, channels |-> chs, payments |-> pays,
     timestamp |-> ts]

\* Buffer.from(text).toString('base64') and Buffer.from(blob, 'base64').toString()
Base64Encode(text) == [base64 |-> text]

Base64Decode(blob) == blob.base64

\* The caller holds no blob yet.
NoBlob == [base64 |-> [kind |-> "none", nodeInfo |-> JsonNoNodeInfo,
                       channels |-> JsonAbsent, payments |-> JsonAbsent,
                       timestamp |-> 0]]

----------------------------------------------------------------------------
(* State                                                                   *)

VARIABLES
    heap,       \* Channel objects by address (1..Len(heap))
    channels,   \* this.channels : Map<channelId, address of a Channel>
    payments,   \* this.payments : Map<paymentHash, Payment>
    nodeInfo,   \* this.nodeInfo
    timers,     \* pending setTimeout callbacks of closeChannel, oldest first
    now,        \* Date.now(), milliseconds
    saved,      \* the blob the last backupState returned, kept by the caller
    result,     \* outcome of the last call: [ok, error]
    calls,      \* calls made so far
    running,    \* FALSE once an uncaught exception ended the process
    returned,   \* what the last call gave back to its caller: [op, value]
    toolServices \* the lightningService object of each tool module, by tool name

vars == <<heap, channels, payments, nodeInfo, timers, now, saved, result, calls,
          running, returned, toolServices>>

\* The ledger proper: what backupState captures and restoreState replaces.
ledger == <<heap, channels, payments, nodeInfo>>

Ok == [ok |-> TRUE, error |-> ""]
Err(msg) == [ok |-> FALSE, error |-> msg]

\* The value a call of op resolved with; a call that threw gave nothing back.
\* A Channel is given back as the address of the object.
Returned(op, value) == [op |-> op, value |-> value]
Thrown == [op |-> "throw", value |-> <<>>]

\* The object the constructor assigns to this.nodeInfo; numPeers, blockHeight,
\* syncedToChain and version are constants no operation reads or writes.
InitialNodeInfo ==
    [defined |-> TRUE, nodeId |-> "02node", alias |-> "LDK MCP Node",
     numChannels |-> 0, numUsableChannels |-> 0]

\* this.nodeInfo === undefined (after restoring a blob without nodeInfo).
UndefinedNodeInfo ==
    [defined |-> FALSE, nodeId |-> UNDEFINED, alias |-> UNDEFINED,
     numChannels |-> 0, numUsableChannels |-> 0]

\* The tools that call the ledger.  Each is a module of its own with
\* `const lightningService = new LightningService()` at its top.
ToolNames ==
    {"ldk_create_channel", "ldk_close_channel", "ldk_channel_status",
     "ldk_get_balance", "ldk_pay_invoice", "ldk_list_payments",
     "ldk_decode_invoice"}

\* new LightningService(): the fields of one instance, its Channel objects
\* held in the Map itself; generateNodeId draws a node id per instance.
NewService(tool) ==
    [channels |-> <<>>,
     payments |-> <<>>,
     nodeInfo |-> [InitialNodeInfo EXCEPT !.nodeId = <<"02node", tool>>],
     timers |-> <<>>]

Init ==
    /\ toolServices = [tool \in ToolNames |-> NewService(tool)]
    /\ heap = <<>>
    /\ channels = <<>>
    /\ payments = <<>>
    /\ nodeInfo = InitialNodeInfo
    /\ timers = <<>>
    /\ now = 0
    /\ saved = NoBlob
    /\ result = Ok
    /\ calls = 0
    /\ running = TRUE
    /\ returned = Returned("none", <<>>)

\* A call reaches the service while the process runs.
Called ==
    /\ running
    /\ calls < MaxCalls
    /\ calls' = calls + 1

----------------------------------------------------------------------------
(* createChannel                                                           *)

\* Mutant of NewChannel: the pushed amount is not taken off the local side.
NewChannelIgnoresPush(channelId, remotePubkey, capacityMsat, pushMsat) ==
    [channelId |-> channelId,
     remotePubkey |-> remotePubkey,
     capacityMsat |-> capacityMsat,
     localBalanceMsat |-> capacityMsat,
     remoteBalanceMsat |-> pushMsat,
     state |-> Open,
     isUsable |-> TRUE]

\* The Channel literal of createChannel.  shortChannelId and fundingTxid are
\* random strings nothing reads; they are left out.
NewChannel(channelId, remotePubkey, capacityMsat, pushMsat) ==
    [channelId |-> channelId,
     remotePubkey |-> remotePubkey,
     capacityMsat |-> capacityMsat,
     localBalanceMsat |-> capacityMsat - pushMsat,
     remoteBalanceMsat |-> pushMsat,
     state |-> Open,
     isUsable |-> TRUE]

\* Mutant of CreateChannel: the call writes the peer's key over the node id.
CreateChannelRenames(remotePubkey, capacityMsat, pushMsat) ==
    /\ Called
    /\ LET addr == Len(heap) + 1
           channelId == addr
       IN /\ heap' = Append(heap, NewChannel(channelId, remotePubkey, capacityMsat, pushMsat))
          /\ channels' = MapSet(channels, channelId, addr)
          /\ IF nodeInfo.defined
             THEN /\ nodeInfo' = [nodeInfo EXCEPT !.numChannels = @ + 1,
                                                  !.numUsableChannels = @ + 1,
                                                  !.nodeId = remotePubkey]
                  /\ result' = Ok
                  /\ returned' = Returned("createChannel", addr)
             ELSE /\ nodeInfo' = nodeInfo
                  /\ result' = Err("TypeError")
                  /\ returned' = Thrown
    /\ UNCHANGED <<payments, timers, now, saved, running>>
    /\ UNCHANGED toolServices

\* crypto.randomBytes(32) gives an identifier no earlier call gave: the
\* address of the new object doubles as that fresh identifier.
CreateChannel(remotePubkey, capacityMsat, pushMsat) ==
    /\ Called
    /\ LET addr == Len(heap) + 1
           channelId == addr
       IN /\ heap' = Append(heap, NewChannel(channelId, remotePubkey, capacityMsat, pushMsat))
          /\ channels' = MapSet(channels, channelId, addr)
          /\ IF nodeInfo.defined
             THEN /\ nodeInfo' = [nodeInfo EXCEPT !.numChannels = @ + 1,
                                                  !.numUsableChannels = @ + 1]
                  /\ result' = Ok
                  /\ returned' = Returned("createChannel", addr)
             ELSE \* this.nodeInfo.numChannels++ throws after channels.set
                  /\ nodeInfo' = nodeInfo
                  /\ result' = Err("TypeError")
                  /\ returned' = Thrown
    /\ UNCHANGED <<payments, timers, now, saved, running>>
    /\ UNCHANGED toolServices

----------------------------------------------------------------------------
(* closeChannel and its deferred removal                                   *)

\* Mutant of CloseChannel: the usable counter is taken down before the
\* lookup.
CloseChannelCountsFirst(channelId) ==
    /\ Called
    /\ nodeInfo.defined
    /\ nodeInfo' = [nodeInfo EXCEPT !.numUsableChannels = @ - 1]
    /\ IF ~MapHas(channels, channelId)
       THEN /\ result' = Err("Channel not found")
            /\ returned' = Thrown
            /\ UNCHANGED <<heap, timers>>
       ELSE LET addr == MapGet(channels, channelId)
            IN /\ heap' = [heap EXCEPT ![addr].state = Closing, ![addr].isUsable = FALSE]
               /\ timers' = Append(timers, [channelId |-> channelId,
                                            channel |-> addr,
                                            due |-> now + CloseDelayMs])
               /\ result' = Ok
               /\ returned' = Returned("closeChannel", TRUE)
    /\ UNCHANGED <<channels, payments, now, saved, running>>
    /\ UNCHANGED toolServices

\* Mutant of CloseChannel: the channel stays usable while it closes.
CloseChannelKeepsUsable(channelId) ==
    /\ Called
    /\ IF ~MapHas(channels, channelId)
       THEN /\ result' = Err("Channel not found")
            /\ returned' = Thrown
            /\ UNCHANGED <<heap, nodeInfo, timers>>
       ELSE LET addr == MapGet(channels, channelId)
            IN /\ heap' = [heap EXCEPT ![addr].state = Closing]
               /\ IF nodeInfo.defined
                  THEN /\ nodeInfo' = [nodeInfo EXCEPT !.numUsableChannels = @ - 1]
                       /\ timers' = Append(timers, [channelId |-> channelId,
                                                    channel |-> addr,
                                                    due |-> now + CloseDelayMs])
                       /\ result' = Ok
                       /\ returned' = Returned("closeChannel", TRUE)
                  ELSE /\ UNCHANGED <<nodeInfo, timers>>
                       /\ result' = Err("TypeError")
                       /\ returned' = Thrown
    /\ UNCHANGED <<channels, payments, now, saved, running>>
    /\ UNCHANGED toolServices

CloseChannel(channelId) ==
    /\ Called
    /\ IF ~MapHas(channels, channelId)
       THEN /\ result' = Err("Channel not found")
            /\ returned' = Thrown
            /\ UNCHANGED <<heap, nodeInfo, timers>>
       ELSE LET addr == MapGet(channels, channelId)
            IN /\ heap' = [heap EXCEPT ![addr].state = Closing, ![addr].isUsable = FALSE]
               /\ IF nodeInfo.defined
                  THEN /\ nodeInfo' = [nodeInfo EXCEPT !.numUsableChannels = @ - 1]
                       /\ timers' = Append(timers, [channelId |-> channelId,
                                                    channel |-> addr,
                                                    due |-> now + CloseDelayMs])
                       /\ result' = Ok
                       /\ returned' = Returned("closeChannel", TRUE)
                  ELSE \* this.nodeInfo.numUsableChannels-- throws: no timer
                       /\ UNCHANGED <<nodeInfo, timers>>
                       /\ result' = Err("TypeError")
                       /\ returned' = Thrown
    /\ UNCHANGED <<channels, payments, now, saved, running>>
    /\ UNCHANGED toolServices

\* The setTimeout callback: it writes to the Channel object captured by the
\* closure, and deletes whatever this.channels holds under channelId now.
CloseTimer ==
    /\ running
    /\ timers # <<>>
    /\ Head(timers).due <= now
    /\ LET t == Head(timers)
       IN /\ heap' = [heap EXCEPT ![t.channel].state = Closed]
          /\ channels' = MapDelete(channels, t.channelId)
          /\ IF nodeInfo.defined
             THEN /\ nodeInfo' = [nodeInfo EXCEPT !.numChannels = @ - 1]
                  /\ running' = running
             ELSE \* uncaught TypeError in a timer callback ends the process
                  /\ nodeInfo' = nodeInfo
                  /\ running' = FALSE
    /\ timers' = Tail(timers)
    /\ UNCHANGED <<payments, now, saved, result, calls, returned>>
    /\ UNCHANGED toolServices

\* Time passes; a timer that is due fires before time passes again.
Tick ==
    /\ now < MaxTicks * TickMs
    /\ \A i \in 1..Len(timers) : timers[i].due > now
    /\ now' = now + TickMs
    /\ UNCHANGED <<heap, channels, payments, nodeInfo, timers, saved, result, calls,
                   running, returned>>
    /\ UNCHANGED toolServices

----------------------------------------------------------------------------
(* payInvoice                                                              *)

\* Invoice texts a caller submits, and what bolt11.decode (a library outside
\* this repository) makes of each.  The first carries a payment hash, an
\* amount and a description.  The second is an "any amount" invoice: a
\* payment hash, millisatoshis = null, and a description hash in place of
\* the description tag.  The third is not an invoice and makes decode throw.
\* The fourth carries an amount that is no multiple of 1000 millisatoshis.
\* Every text that decodes carries the payment hash BOLT11 requires.
\* millisatoshis is a string of decimal digits, kept as the sequence of its
\* digits; null is the empty one.  Each invoice was made at second 0 of the
\* wall clock; the first carries an expire_time tag of 3 seconds, the second
\* no such tag, the fourth an expire_time of 0 seconds: expire_time is the
\* sequence of the data of the tags of that name, none or one.
Invoices == {"lntb2500u-coffee", "lntb-any", "not-an-invoice", "lntb19990p-tip"}

Bolt11Decode(text) ==
    CASE text = "lntb2500u-coffee" ->
            [ok |-> TRUE, paymentHash |-> "h1",
             millisatoshis |-> <<2, 5, 0, 0, 0, 0, 0, 0, 0>>,
             description |-> "coffee", timestamp |-> 0, expire_time |-> <<3>>]
      [] text = "lntb-any" ->
            [ok |-> TRUE, paymentHash |-> "h2", millisatoshis |-> <<>>,
             description |-> UNDEFINED, timestamp |-> 0, expire_time |-> <<>>]
      [] text = "lntb19990p-tip" ->
            [ok |-> TRUE, paymentHash |-> "h3", millisatoshis |-> <<1, 9, 9, 9>>,
             description |-> "tip", timestamp |-> 0, expire_time |-> <<0>>]
      [] OTHER ->
            [ok |-> FALSE, paymentHash |-> UNDEFINED, millisatoshis |-> <<>>,
             description |-> UNDEFINED, timestamp |-> 0,
             expire_time |-> <<>>]

\* parseInt of a string of decimal digits.
RECURSIVE ParseInt(_)
ParseInt(digits) ==
    IF digits = <<>> THEN 0
    ELSE 10 * ParseInt(SubSeq(digits, 1, Len(digits) - 1)) + digits[Len(digits)]

\* Mutant of FeeOf: the fee is rounded up.
FeeOfRoundsUp(amountMsat) == (amountMsat + 999) \div 1000

\* Math.floor(amountMsat * 0.001)
FeeOf(amountMsat) == amountMsat \div 1000

\* The Payment literal of payInvoice.
NewPayment(decoded, bolt11Invoice, preimage, timestamp) ==
    LET amountMsat == ParseInt(IF decoded.millisatoshis = <<>> THEN <<0>>
                               ELSE decoded.millisatoshis)
    IN [paymentHash |-> decoded.paymentHash,
        amountMsat |-> amountMsat,
        status |-> Succeeded,
        timestamp |-> timestamp,
        description |-> decoded.description,
        bolt11 |-> bolt11Invoice,
        feeMsat |-> FeeOf(amountMsat),
        paymentPreimage |-> preimage]

\* Mutant of PayInvoice: the payment is stored before the text is decoded.
PayInvoiceStoresFirst(bolt11Invoice, preimage) ==
    /\ Called
    /\ LET decoded == Bolt11Decode(bolt11Invoice)
       IN /\ payments' = MapSet(payments, decoded.paymentHash,
                                NewPayment(decoded, bolt11Invoice, preimage, now))
          /\ result' = IF decoded.ok THEN Ok ELSE Err("Failed to pay invoice")
          /\ returned' = IF decoded.ok
                         THEN Returned("payInvoice",
                                       NewPayment(decoded, bolt11Invoice, preimage, now))
                         ELSE Thrown
    /\ UNCHANGED <<heap, channels, nodeInfo, timers, now, saved, running>>
    /\ UNCHANGED toolServices

\* Mutant of PayInvoice: the registry keeps the latest payment only.
PayInvoiceKeepsLatest(bolt11Invoice, preimage) ==
    /\ Called
    /\ LET decoded == Bolt11Decode(bolt11Invoice)
       IN IF ~decoded.ok
          THEN /\ result' = Err("Failed to pay invoice")
               /\ returned' = Thrown
               /\ UNCHANGED payments
          ELSE LET payment == NewPayment(decoded, bolt11Invoice, preimage, now)
               IN /\ payments' = <<<<decoded.paymentHash, payment>>>>
                  /\ result' = Ok
                  /\ returned' = Returned("payInvoice", payment)
    /\ UNCHANGED <<heap, channels, nodeInfo, timers, now, saved, running>>
    /\ UNCHANGED toolServices

\* Mutant of PayInvoice: a payment needs a channel to go through.
PayInvoiceNeedsChannel(bolt11Invoice, preimage) ==
    /\ Called
    /\ LET decoded == Bolt11Decode(bolt11Invoice)
       IN IF ~decoded.ok \/ channels = <<>>
          THEN /\ result' = Err("Failed to pay invoice")
               /\ returned' = Thrown
               /\ UNCHANGED payments
          ELSE LET payment == NewPayment(decoded, bolt11Invoice, preimage, now)
               IN /\ payments' = MapSet(payments, decoded.paymentHash, payment)
                  /\ result' = Ok
                  /\ returned' = Returned("payInvoice", payment)
    /\ UNCHANGED <<heap, channels, nodeInfo, timers, now, saved, running>>
    /\ UNCHANGED toolServices

PayInvoice(bolt11Invoice, preimage) ==
    /\ Called
    /\ LET decoded == Bolt11Decode(bolt11Invoice)
       IN IF ~decoded.ok
          THEN /\ result' = Err("Failed to pay invoice")
               /\ returned' = Thrown
               /\ UNCHANGED payments
          ELSE LET payment == NewPayment(decoded, bolt11Invoice, preimage, now)
               IN /\ payments' = MapSet(payments, decoded.paymentHash, payment)
                  /\ result' = Ok
                  /\ returned' = Returned("payInvoice", payment)
    /\ UNCHANGED <<heap, channels, nodeInfo, timers, now, saved, running>>
    /\ UNCHANGED toolServices

----------------------------------------------------------------------------
(* backupState                                                             *)

StringifyNodeInfo(ni) ==
    IF ni.defined
    THEN [ni EXCEPT !.nodeId = StringifyMember(@), !.alias = StringifyMember(@)]
    ELSE JsonNoNodeInfo

\* Mutant of StringifyPayment: the preimage is left out of the backup.
StringifyPaymentNoPreimage(p) ==
    [p EXCEPT !.paymentHash = StringifyMember(@),
              !.description = StringifyMember(@),
              !.paymentPreimage = ABSENT]

StringifyPayment(p) ==
    [p EXCEPT !.paymentHash = StringifyMember(@),
              !.description = StringifyMember(@)]

\* JSON.stringify({nodeInfo, channels: [...entries], payments: [...entries],
\* timestamp})
StringifyState ==
    JsonObject(
        StringifyNodeInfo(nodeInfo),
        JsonArray([i \in 1..Len(channels) |->
                      <<channels[i][1], heap[channels[i][2]]>>]),
        JsonArray([i \in 1..Len(payments) |->
                      <<StringifyElement(payments[i][1]),
                        StringifyPayment(payments[i][2])>>]),
        now)

BackupState ==
    /\ Called
    /\ saved' = Base64Encode(StringifyState)
    /\ result' = Ok
    /\ returned' = Returned("backupState", saved')
    /\ UNCHANGED <<heap, channels, payments, nodeInfo, timers, now, running>>
    /\ UNCHANGED toolServices

----------------------------------------------------------------------------
(* restoreState                                                            *)

ParseNodeInfo(j) ==
    IF j.defined
    THEN [j EXCEPT !.nodeId = ReadMember(@), !.alias = ReadMember(@)]
    ELSE UndefinedNodeInfo

ParsePayment(j) ==
    [j EXCEPT !.paymentHash = ReadMember(@), !.description = ReadMember(@)]

\* The pairs are set into m one after the other.
RECURSIVE MapSetAll(_, _)
MapSetAll(m, pairs) ==
    IF pairs = <<>> THEN m
    ELSE LET last == pairs[Len(pairs)]
         IN MapSet(MapSetAll(m, SubSeq(pairs, 1, Len(pairs) - 1)), last[1], last[2])

\* Mutant of AssignNewMap: the pairs are merged into the map held before.
AssignMergedMap(previous, pairs) == MapSetAll(previous, pairs)

\* this.channels = new Map(pairs), this.payments = new Map(pairs): the map
\* held before is dropped.
AssignNewMap(previous, pairs) == MapSetAll(<<>>, pairs)

\* The three assignments of restoreState run in order; one that throws leaves
\* the earlier ones done.
RestoreState(backup) ==
    /\ Called
    /\ LET state == Base64Decode(backup)
           items == state.channels.items
           base == Len(heap)
       IN IF state.kind # "object"
          THEN \* JSON.parse throws, or state is null and state.nodeInfo throws
               /\ result' = Err("Failed to restore state")
               /\ returned' = Thrown
               /\ UNCHANGED <<heap, channels, payments, nodeInfo>>
          ELSE /\ nodeInfo' = ParseNodeInfo(state.nodeInfo)
               /\ IF state.channels.tag = "number"
                  THEN \* new Map(5) throws
                       /\ result' = Err("Failed to restore state")
                       /\ returned' = Thrown
                       /\ UNCHANGED <<heap, channels, payments>>
                  ELSE /\ heap' = heap \o [i \in 1..Len(items) |-> items[i][2]]
                       /\ channels' = AssignNewMap(channels,
                                        [i \in 1..Len(items) |-> <<items[i][1], base + i>>])
                       /\ IF state.payments.tag = "number"
                          THEN /\ result' = Err("Failed to restore state")
                               /\ returned' = Thrown
                               /\ UNCHANGED payments
                          ELSE /\ payments' = AssignNewMap(payments,
                                     [i \in 1..Len(state.payments.items) |->
                                        <<state.payments.items[i][1],
                                          ParsePayment(state.payments.items[i][2])>>])
                               /\ result' = Ok
                               /\ returned' = Returned("restoreState", TRUE)
    /\ UNCHANGED <<timers, now, saved, running>>
    /\ UNCHANGED toolServices

\* Blobs a caller passes to restore: text that is no JSON, the JSON text
\* "null", the JSON text "{}", the blob it got from backupState, and that blob
\* with the channels or the payments member replaced by a number; and the
\* blob that backupState of another instance gave right after construction
\* (generateNodeId draws a node id of its own for every instance).
EmptyObjectBlob == Base64Encode(JsonObject(JsonNoNodeInfo, JsonAbsent, JsonAbsent, 0))

OtherInstanceBlob ==
    Base64Encode(JsonObject([InitialNodeInfo EXCEPT !.nodeId = "02other"],
                            JsonArray(<<>>), JsonArray(<<>>), 0))

RestoreInputs ==
    {Base64Encode(JsonGarbage), Base64Encode(JsonNull), EmptyObjectBlob,
     OtherInstanceBlob}
    \cup (IF saved = NoBlob THEN {}
          ELSE {saved,
                Base64Encode([Base64Decode(saved) EXCEPT !.channels = JsonNumber]),
                Base64Encode([Base64Decode(saved) EXCEPT !.payments = JsonNumber])})

----------------------------------------------------------------------------
(* Reads                                                                   *)

\* getChannelStatus: Array.from(this.channels.values())
ListChannels == [i \in 1..Len(channels) |-> heap[channels[i][2]]]

\* Mutant of SpendableOf: nothing is reserved for fees.
SpendableOfNoReserve(localBalanceMsat) == localBalanceMsat

\* Math.floor(localBalanceMsat * 0.99)
SpendableOf(localBalanceMsat) == (localBalanceMsat * 99) \div 100

\* The loop of getBalance over a list of channels.
RECURSIVE BalanceOver(_)
BalanceOver(chs) ==
    IF chs = <<>> THEN [totalMsat |-> 0, spendableMsat |-> 0]
    ELSE LET rest == BalanceOver(SubSeq(chs, 1, Len(chs) - 1))
             channel == chs[Len(chs)]
         IN IF channel.state = Open
            THEN [totalMsat |-> rest.totalMsat + channel.localBalanceMsat,
                  spendableMsat |->
                      IF channel.isUsable
                      THEN rest.spendableMsat + SpendableOf(channel.localBalanceMsat)
                      ELSE rest.spendableMsat]
            ELSE rest

GetBalance == BalanceOver(ListChannels)

\* Mutant of SortByTimestampDesc: the comparison is a.timestamp - b.timestamp.
RECURSIVE SortByTimestampAsc(_)
SortByTimestampAsc(ps) ==
    IF ps = <<>> THEN <<>>
    ELSE LET sorted == SortByTimestampAsc(SubSeq(ps, 1, Len(ps) - 1))
             p == ps[Len(ps)]
             k == Cardinality({i \in 1..Len(sorted) : sorted[i].timestamp <= p.timestamp})
         IN SubSeq(sorted, 1, k) \o <<p>> \o SubSeq(sorted, k + 1, Len(sorted))

\* Array.prototype.sort with (a, b) => b.timestamp - a.timestamp: stable,
\* most recent first.
RECURSIVE SortByTimestampDesc(_)
SortByTimestampDesc(ps) ==
    IF ps = <<>> THEN <<>>
    ELSE LET sorted == SortByTimestampDesc(SubSeq(ps, 1, Len(ps) - 1))
             p == ps[Len(ps)]
             \* p goes after every element that is not older than it
             k == Cardinality({i \in 1..Len(sorted) : sorted[i].timestamp >= p.timestamp})
         IN SubSeq(sorted, 1, k) \o <<p>> \o SubSeq(sorted, k + 1, Len(sorted))

ListPayments == SortByTimestampDesc(MapValues(payments))

\* Mutant of EstimateFee: the rate is taken per thousand, not per million.
EstimateFeePerMille(amountMsat) ==
    LET baseFee == 1000
        proportionalMillionths == 1000
    IN [baseFee |-> baseFee,
        proportionalMillionths |-> proportionalMillionths,
        estimatedFeeMsat |->
            baseFee + ((amountMsat * proportionalMillionths) \div 1000),
        estimatedDurationSeconds |-> 60]

\* estimateFee: baseFee + Math.floor(amountMsat * proportionalMillionths / 1000000)
EstimateFee(amountMsat) ==
    LET baseFee == 1000
        proportionalMillionths == 1000
    IN [baseFee |-> baseFee,
        proportionalMillionths |-> proportionalMillionths,
        estimatedFeeMsat |->
            baseFee + ((amountMsat * proportionalMillionths) \div 1000000),
        estimatedDurationSeconds |-> 60]

\* Amounts a caller asks a fee estimate for.
FeeAmounts == {0, 1999, 1000000}

\* The calls of the read operations.  getChannelStatus gives a new array that
\* holds the registered Channel objects themselves: their addresses.
GetChannelStatusCall ==
    /\ Called
    /\ result' = Ok
    /\ returned' = Returned("getChannelStatus",
                            [i \in 1..Len(channels) |-> channels[i][2]])
    /\ UNCHANGED <<heap, channels, payments, nodeInfo, timers, now, saved, running>>
    /\ UNCHANGED toolServices

\* Mutant of GetBalanceCall: the loop drops the channels that are not Open
\* from the registry as it passes them.
GetBalanceCallPrunes ==
    /\ Called
    /\ result' = Ok
    /\ returned' = Returned("getBalance", GetBalance)
    /\ channels' = SelectSeq(channels, LAMBDA e : heap[e[2]].state = Open)
    /\ UNCHANGED <<heap, payments, nodeInfo, timers, now, saved, running>>
    /\ UNCHANGED toolServices

GetBalanceCall ==
    /\ Called
    /\ result' = Ok
    /\ returned' = Returned("getBalance", GetBalance)
    /\ UNCHANGED <<heap, channels, payments, nodeInfo, timers, now, saved, running>>
    /\ UNCHANGED toolServices

ListPaymentsCall ==
    /\ Called
    /\ result' = Ok
    /\ returned' = Returned("listPayments", ListPayments)
    /\ UNCHANGED <<heap, channels, payments, nodeInfo, timers, now, saved, running>>
    /\ UNCHANGED toolServices

EstimateFeeCall(amountMsat) ==
    /\ Called
    /\ result' = Ok
    /\ returned' = Returned("estimateFee", EstimateFee(amountMsat))
    /\ UNCHANGED <<heap, channels, payments, nodeInfo, timers, now, saved, running>>
    /\ UNCHANGED toolServices

----------------------------------------------------------------------------

Next ==
    \/ \E p \in Peers, a \in ChannelArgs : CreateChannel(p, a[1], a[2])
    \/ \E c \in 1..(Len(heap) + 1) : CloseChannel(c)
    \/ CloseTimer
    \/ Tick
    \/ \E inv \in Invoices, r \in Preimages : PayInvoice(inv, r)
    \/ BackupState
    \/ \E b \in RestoreInputs : RestoreState(b)
    \/ GetChannelStatusCall
    \/ GetBalanceCall
    \/ ListPaymentsCall
    \/ \E a \in FeeAmounts : EstimateFeeCall(a)

Spec == Init /\ [][Next]_vars

\* The delay of the oldest pending close timer runs out: the wall clock
\* reaches the time the timer is due, however many calls came before.
TimerWait ==
    /\ running
    /\ timers # <<>>
    /\ \A i \in 1..Len(timers) : timers[i].due > now
    /\ now' = Head(timers).due
    /\ UNCHANGED <<heap, channels, payments, nodeInfo, timers, saved, result, calls,
                   running, returned>>
    /\ UNCHANGED toolServices

\* The operations that write the ledger, with the timers: a delay that was
\* started runs out, and a timer that is due fires (the event loop runs the
\* callback of every setTimeout whose delay has passed).
NextClosing ==
    \/ \E p \in Peers, a \in ChannelArgs : CreateChannel(p, a[1], a[2])
    \/ \E c \in 1..(Len(heap) + 1) : CloseChannel(c)
    \/ CloseTimer
    \/ Tick
    \/ TimerWait
    \/ \E inv \in Invoices, r \in Preimages : PayInvoice(inv, r)
    \/ BackupState
    \/ \E b \in RestoreInputs : RestoreState(b)

SpecClosing ==
    /\ Init
    /\ [][NextClosing]_vars
    /\ WF_vars(TimerWait)
    /\ WF_vars(CloseTimer)

----------------------------------------------------------------------------
(* The tool handlers                                                       *)

\* What a method of one LightningService instance does to that instance and
\* gives its caller: the instance after the call, and the value it resolved
\* with or the message of the Error it threw.
Resolved(service, value) ==
    [service |-> service, ok |-> TRUE, error |-> "", value |-> value]
Rejected(service, message) ==
    [service |-> service, ok |-> FALSE, error |-> message, value |-> UNDEFINED]

\* createChannel on the instance `service`.
ServiceCreateChannel(service, channelId, remotePubkey, capacityMsat, pushMsat) ==
    LET channel == NewChannel(channelId, remotePubkey, capacityMsat, pushMsat)
        stored == [service EXCEPT !.channels = MapSet(@, channelId, channel)]
    IN IF service.nodeInfo.defined
       THEN Resolved([stored EXCEPT !.nodeInfo.numChannels = @ + 1,
                                    !.nodeInfo.numUsableChannels = @ + 1],
                     channel)
       ELSE Rejected(stored, "TypeError")

\* closeChannel on the instance `service`.
ServiceCloseChannel(service, channelId, dateNow) ==
    IF ~MapHas(service.channels, channelId)
    THEN Rejected(service, "Channel not found")
    ELSE LET channel == [MapGet(service.channels, channelId)
                            EXCEPT !.state = Closing, !.isUsable = FALSE]
             closing == [service EXCEPT !.channels = MapSet(@, channelId, channel)]
         IN IF service.nodeInfo.defined
            THEN Resolved([closing EXCEPT
                              !.nodeInfo.numUsableChannels = @ - 1,
                              !.timers = Append(@, [channelId |-> channelId,
                                                    due |-> dateNow + CloseDelayMs])],
                          TRUE)
            ELSE Rejected(closing, "TypeError")

\* payInvoice on the instance `service`.
ServicePayInvoice(service, bolt11Invoice, preimage, dateNow) ==
    LET decoded == Bolt11Decode(bolt11Invoice)
        payment == NewPayment(decoded, bolt11Invoice, preimage, dateNow)
    IN IF ~decoded.ok
       THEN Rejected(service, "Failed to pay invoice")
       ELSE Resolved([service EXCEPT
                         !.payments = MapSet(@, decoded.paymentHash, payment)],
                     payment)

\* getChannelStatus, getBalance and listPayments on the instance `service`.
ServiceGetChannelStatus(service) == MapValues(service.channels)
ServiceGetBalance(service) == BalanceOver(MapValues(service.channels))
ServiceListPayments(service) == SortByTimestampDesc(MapValues(service.payments))

\* decodeInvoice: amountMsat is null for an empty or absent millisatoshis,
\* expiry is the data of the expire_time tag, undefined without that tag.
\* A number that may be null or undefined is kept as a sequence: of that
\* number, or empty.
ServiceDecodeInvoice(service, bolt11Invoice) ==
    LET decoded == Bolt11Decode(bolt11Invoice)
    IN IF ~decoded.ok
       THEN Rejected(service, "Failed to decode invoice")
       ELSE Resolved(service,
                     [paymentHash |-> decoded.paymentHash,
                      amountMsat |-> IF decoded.millisatoshis = <<>> THEN <<>>
                                     ELSE <<ParseInt(decoded.millisatoshis)>>,
                      description |-> decoded.description,
                      expiry |-> decoded.expire_time,
                      timestamp |-> decoded.timestamp])

\* Math.floor(msat / 1000)
SatsOf(msat) == msat \div 1000

\* Mutant of CatchEnvelope: every failure is reported as 'Unknown error'.
CatchEnvelopeUnknown(message) ==
    [success |-> FALSE, error |-> "Unknown error", isError |-> TRUE]

\* The catch block every handler ends with: whatever the service threw is an
\* Error, and its message goes into the envelope.
CatchEnvelope(message) ==
    [success |-> FALSE, error |-> message, isError |-> TRUE]

\* The end of a handler: the caller gets the envelope of the try block, or
\* that of the catch block when the service threw.  Of an envelope, the
\* members computed from the ledger are kept; the static swiftExample text,
\* the random shortChannelId and fundingTxid, and the sums over capacities
\* and remote balances are left out.
Handled(tool, outcome, envelope) ==
    /\ toolServices' = [toolServices EXCEPT ![tool] = outcome.service]
    /\ returned' = Returned(tool, IF outcome.ok THEN envelope
                                  ELSE CatchEnvelope(outcome.error))
    /\ result' = Ok
    /\ UNCHANGED <<heap, channels, payments, nodeInfo, timers, now, saved, running>>

\* Arguments of ldk_create_channel: capacitySats and pushSats.
ToolChannelArgs == {<<20000, 1000>>, <<50000, 50000>>}

\* ldk_create_channel.  The channel identifier is fresh: the number of this
\* call.
CreateChannelTool(remotePubkey, capacitySats, pushSats) ==
    /\ Called
    /\ LET outcome == ServiceCreateChannel(toolServices["ldk_create_channel"], calls + 1,
                                           remotePubkey, capacitySats * 1000,
                                           pushSats * 1000)
           channel == outcome.value
       IN Handled("ldk_create_channel", outcome,
                  [success |-> TRUE,
                   channel |-> [channelId |-> channel.channelId,
                                capacitySats |-> SatsOf(channel.capacityMsat),
                                localBalanceSats |-> SatsOf(channel.localBalanceMsat),
                                remoteBalanceSats |-> SatsOf(channel.remoteBalanceMsat),
                                state |-> channel.state]])

\* ldk_close_channel: success is what closeChannel resolved with.
CloseChannelTool(channelId) ==
    /\ Called
    /\ LET outcome == ServiceCloseChannel(toolServices["ldk_close_channel"], channelId, now)
       IN Handled("ldk_close_channel", outcome,
                  [success |-> outcome.value,
                   channelId |-> channelId,
                   message |-> "Channel closing initiated"])

\* ldk_channel_status: includeOffline = false leaves out the channels that
\* are not usable; the summary counts all.
GetChannelStatusTool(includeOffline) ==
    /\ Called
    /\ LET service == toolServices["ldk_channel_status"]
           all == ServiceGetChannelStatus(service)
           filteredChannels == IF includeOffline = "false"
                               THEN SelectSeq(all, LAMBDA c : c.isUsable)
                               ELSE all
       IN Handled("ldk_channel_status", Resolved(service, all),
                  [success |-> TRUE,
                   summary |-> [totalChannels |-> Len(all),
                                usableChannels |->
                                    Len(SelectSeq(all, LAMBDA c : c.isUsable))],
                   channels |-> [i \in 1..Len(filteredChannels) |->
                                    [channelId |-> filteredChannels[i].channelId,
                                     state |-> filteredChannels[i].state,
                                     isUsable |-> filteredChannels[i].isUsable,
                                     localBalanceSats |->
                                         SatsOf(filteredChannels[i].localBalanceMsat)]]])

\* ldk_get_balance
GetBalanceTool ==
    /\ Called
    /\ LET service == toolServices["ldk_get_balance"]
           balance == ServiceGetBalance(service)
       IN Handled("ldk_get_balance", Resolved(service, balance),
                  [success |-> TRUE,
                   balance |-> [totalSats |-> SatsOf(balance.totalMsat),
                                spendableSats |-> SatsOf(balance.spendableMsat)]])

\* Values of maxFeeSats a caller passes to ldk_pay_invoice: none, or 50.  The
\* input schema names 10 as the default of an absent one.
MaxFeeArgs == {<<>>, <<50>>}

\* ldk_pay_invoice: execute passes args.invoice to payInvoice and reads
\* nothing else of args.
PayInvoiceTool(invoice, maxFeeSats, preimage) ==
    /\ Called
    /\ LET outcome == ServicePayInvoice(toolServices["ldk_pay_invoice"], invoice,
                                        preimage, now)
           payment == outcome.value
       IN Handled("ldk_pay_invoice", outcome,
                  [success |-> TRUE,
                   payment |-> [paymentHash |-> payment.paymentHash,
                                paymentPreimage |-> payment.paymentPreimage,
                                amountSats |-> SatsOf(payment.amountMsat),
                                feeSats |-> SatsOf(payment.feeMsat),
                                status |-> payment.status,
                                timestamp |-> payment.timestamp]])

\* ldk_list_payments with status left at 'all': limit cuts the list when it
\* is given and not 0.
ListPaymentsTool(limit) ==
    /\ Called
    /\ LET service == toolServices["ldk_list_payments"]
           all == ServiceListPayments(service)
           listed == IF limit # <<>> /\ limit[1] # 0 /\ limit[1] < Len(all)
                     THEN SubSeq(all, 1, limit[1]) ELSE all
       IN Handled("ldk_list_payments", Resolved(service, all),
                  [success |-> TRUE,
                   count |-> Len(listed),
                   payments |-> [i \in 1..Len(listed) |->
                                    [paymentHash |-> listed[i].paymentHash,
                                     amountSats |-> SatsOf(listed[i].amountMsat),
                                     status |-> listed[i].status]]])

\* decoded.timestamp + (decoded.expiry || 3600) < Date.now() / 1000, with the
\* invoice's seconds against the clock's milliseconds.
IsExpired(decoded, dateNow) ==
    LET expiry == IF decoded.expiry = <<>> \/ decoded.expiry = <<0>>
                  THEN 3600 ELSE decoded.expiry[1]
    IN (decoded.timestamp + expiry) * 1000 < dateNow

\* ldk_decode_invoice
DecodeInvoiceTool(invoice) ==
    /\ Called
    /\ LET outcome == ServiceDecodeInvoice(toolServices["ldk_decode_invoice"], invoice)
           decoded == outcome.value
       IN Handled("ldk_decode_invoice", outcome,
                  [success |-> TRUE,
                   paymentHash |-> decoded.paymentHash,
                   amountMsat |-> decoded.amountMsat,
                   description |-> decoded.description,
                   expiry |-> decoded.expiry,
                   timestamp |-> decoded.timestamp,
                   amountSats |-> IF decoded.amountMsat = <<>> \/ decoded.amountMsat = <<0>>
                                  THEN <<>> ELSE <<SatsOf(decoded.amountMsat[1])>>,
                   isExpired |-> IsExpired(decoded, now)])

\* The bytes crypto.randomBytes(32) gives payInvoice in a tool call.
ToolPreimages == {"r1"}

\* The server: tool calls in any order, each on the instance of its own
\* module, while the wall clock runs.
NextTools ==
    \/ \E p \in Peers, a \in ToolChannelArgs : CreateChannelTool(p, a[1], a[2])
    \/ \E c \in 1..MaxCalls : CloseChannelTool(c)
    \/ \E includeOffline \in {ABSENT, "false"} : GetChannelStatusTool(includeOffline)
    \/ GetBalanceTool
    \/ \E inv \in Invoices, m \in MaxFeeArgs, r \in ToolPreimages :
          PayInvoiceTool(inv, m, r)
    \/ \E limit \in {<<>>, <<1>>} : ListPaymentsTool(limit)
    \/ \E inv \in Invoices : DecodeInvoiceTool(inv)
    \/ Tick

SpecTools == Init /\ [][NextTools]_vars

----------------------------------------------------------------------------
(* Properties                                                              *)

Range(f) == {f[i] : i \in DOMAIN f}

\* A step that is a call of restoreState.
IsRestore == \E b \in RestoreInputs : RestoreState(b)

\* The registry holds a channel under channelId.
Registered(channelId) == MapHas(channels, channelId)

\* C1: every registered channel has localBalanceMsat + remoteBalanceMsat =
\* capacityMsat, from its creation on and through closes, timer firings,
\* payments, backups and restores.
C1_BalancesSumToCapacity ==
    \A i \in 1..Len(ListChannels) :
        ListChannels[i].localBalanceMsat + ListChannels[i].remoteBalanceMsat
            = ListChannels[i].capacityMsat

\* A channel with a pushed amount that went through a close and a restore of
\* a backup is read from the registry.
C1_Witness ==
    \E i \in 1..Len(channels) :
        /\ ListChannels[i].remoteBalanceMsat > 0
        /\ ListChannels[i].localBalanceMsat > 0
        /\ ListChannels[i].state = Closing
        /\ channels[i][2] # channels[i][1]

\* C2: when the deferred removal of a closed channel fires, no channel with
\* that identifier is left in what getChannelStatus returns, and an
\* identifier that is out of the registry stays out of it through every step
\* that is not a restore.
C2_RemovedAfterDelay ==
    [][/\ CloseTimer =>
             \A i \in 1..Len(ListChannels') :
                 ListChannels'[i].channelId # Head(timers).channelId
       /\ \A c \in 1..Len(heap) :
             (~Registered(c) /\ ~IsRestore) =>
                 \A i \in 1..Len(ListChannels') : ListChannels'[i].channelId # c]_vars

\* A removal has fired: the object it captured is Closed and its identifier
\* is no longer registered.
C2_Witness ==
    \E a \in 1..Len(heap) :
        /\ heap[a].state = Closed
        /\ ~Registered(heap[a].channelId)

\* C3 (as claimed): while a removal scheduled by closeChannel(c) is pending,
\* c is registered, every channel listed under c is Closing and not usable,
\* and the balance is the balance of the other channels.
C3_ClosingUntilRemoved ==
    \A k \in 1..Len(timers) :
        LET c == timers[k].channelId
        IN /\ Registered(c)
           /\ \A i \in 1..Len(ListChannels) :
                 ListChannels[i].channelId = c =>
                     /\ ListChannels[i].state = Closing
                     /\ ListChannels[i].isUsable = FALSE
           /\ GetBalance = BalanceOver(SelectSeq(ListChannels,
                                                 LAMBDA ch : ch.channelId # c))

\* C4: closeChannel on an identifier the registry lacks fails with 'Channel
\* not found' and changes neither a channel nor a payment nor a counter, and
\* schedules nothing.
C4_CloseUnknownFails ==
    [][\A c \in 1..(Len(heap) + 1) :
          (CloseChannel(c) /\ ~Registered(c)) =>
              /\ result' = Err("Channel not found")
              /\ UNCHANGED <<heap, channels, payments, nodeInfo, timers>>]_vars

\* A close has failed with 'Channel not found' after a removal had fired.
C4_Witness ==
    /\ result = Err("Channel not found")
    /\ \E a \in 1..Len(heap) :
          /\ heap[a].state = Closed
          /\ ~Registered(heap[a].channelId)

\* C5 (as claimed): numChannels is the number of registered channels,
\* numUsableChannels the number of registered usable channels, and neither is
\* negative.
C5_CountersMatchRegistry ==
    nodeInfo.defined =>
        /\ nodeInfo.numChannels = Len(channels)
        /\ nodeInfo.numUsableChannels =
              Cardinality({i \in 1..Len(channels) : ListChannels[i].isUsable})
        /\ nodeInfo.numChannels >= 0
        /\ nodeInfo.numUsableChannels >= 0

\* C6 (as claimed): a step other than a restore keeps every stored payment's
\* amount, fee and preimage.
C6_PaymentImmutable ==
    [][~IsRestore =>
          \A i \in 1..Len(payments) :
              LET h == payments[i][1]
                  p == payments[i][2]
              IN /\ MapHas(payments', h)
                 /\ MapGet(payments', h).amountMsat = p.amountMsat
                 /\ MapGet(payments', h).feeMsat = p.feeMsat
                 /\ MapGet(payments', h).paymentPreimage = p.paymentPreimage]_vars

\* C7: restoring the blob that backupState gives for the current state leaves
\* the same set of channels and the same set of payments to be listed.
C7_RestoreBackupRoundTrip ==
    [][(saved = Base64Encode(StringifyState) /\ RestoreState(saved)) =>
          /\ result'.ok
          /\ Range(ListChannels') = Range(ListChannels)
          /\ Range(ListPayments') = Range(ListPayments)]_vars

\* A backup of a ledger with a channel and a payment has been restored: the
\* registered channel is a fresh copy, and the state still stringifies to
\* the blob.
C7_Witness ==
    /\ saved = Base64Encode(StringifyState)
    /\ result.ok
    /\ Len(payments) > 0
    /\ \E i \in 1..Len(channels) : channels[i][2] # channels[i][1]

\* C8: after a successful restoreState the node info, the channel registry
\* and the payment registry hold what the blob holds and nothing else.
C8_RestoreOverwrites ==
    [][\A b \in RestoreInputs :
          (RestoreState(b) /\ result'.ok) =>
              LET state == Base64Decode(b)
              IN /\ StringifyNodeInfo(nodeInfo') = state.nodeInfo
                 /\ [i \in 1..Len(channels') |->
                        <<channels'[i][1], heap'[channels'[i][2]]>>]
                        = state.channels.items
                 /\ [i \in 1..Len(payments') |->
                        <<payments'[i][1], StringifyPayment(payments'[i][2])>>]
                        = state.payments.items]_vars

\* A restore has succeeded and dropped a channel of the state before it: an
\* Open channel object is left in no registry entry, no removal having fired.
C8_Witness ==
    /\ result.ok
    /\ now = 0
    /\ Len(channels) > 0
    /\ \E a \in 1..Len(heap) :
          /\ heap[a].state = Open
          /\ ~Registered(heap[a].channelId)

\* A blob whose text is an object with nodeInfo, a list of channel pairs and
\* a list of payment pairs.
WellFormedBlob(b) ==
    /\ Base64Decode(b).kind = "object"
    /\ Base64Decode(b).nodeInfo.defined
    /\ Base64Decode(b).channels.tag = "array"
    /\ Base64Decode(b).payments.tag = "array"

\* C9 (as claimed): restoreState never succeeds on a blob that is not well
\* formed.
C9_RestoreRejectsMalformed ==
    [][\A b \in RestoreInputs :
          (RestoreState(b) /\ ~WellFormedBlob(b)) => ~result'.ok]_vars

\* C10: payInvoice on text that does not decode fails and leaves the
\* payments, and the rest of the ledger, as they were.
C10_PayInvalidChangesNothing ==
    [][\A inv \in Invoices, r \in Preimages :
          (~Bolt11Decode(inv).ok /\ PayInvoice(inv, r)) =>
              /\ result' = Err("Failed to pay invoice")
              /\ UNCHANGED <<heap, channels, payments, nodeInfo, timers, saved>>]_vars

\* A payment is on record and a later payInvoice has failed.
C10_Witness ==
    /\ result = Err("Failed to pay invoice")
    /\ Len(payments) > 0

\* The payment hash and the amount in millisatoshis that each invoice text
\* declares.
DeclaredHash(inv) ==
    CASE inv = "lntb2500u-coffee" -> "h1"
      [] inv = "lntb19990p-tip" -> "h3"

DeclaredAmountMsat(inv) ==
    CASE inv = "lntb2500u-coffee" -> 250000000
      [] inv = "lntb19990p-tip" -> 1999

\* A step that ends a call of payInvoice, whatever the outcome: a payment
\* returned, a payment stored, or the error of payInvoice thrown.
PayInvoiceEnded ==
    \/ returned'.op = "payInvoice"
    \/ result'.error = "Failed to pay invoice"
    \/ payments' # payments

\* C11: payInvoice on an invoice that declares payment hash h and amount a
\* returns a Payment with paymentHash = h, amountMsat = a, status Succeeded
\* and feeMsat = floor(a / 1000), and the payment registry holds that Payment
\* under h.
C11_PayStoresSucceeded ==
    [][\A inv \in {"lntb2500u-coffee", "lntb19990p-tip"}, r \in Preimages :
          (/\ PayInvoiceEnded
           /\ returned'.op = "payInvoice" =>
                  /\ returned'.value.bolt11 = inv
                  /\ returned'.value.paymentPreimage = r
           /\ PayInvoice(inv, r)) =>
              LET h == DeclaredHash(inv)
                  a == DeclaredAmountMsat(inv)
                  p == returned'.value
              IN /\ result' = Ok
                 /\ returned'.op = "payInvoice"
                 /\ p.paymentHash = h
                 /\ p.amountMsat = a
                 /\ p.status = Succeeded
                 /\ 1000 * p.feeMsat <= a
                 /\ a < 1000 * (p.feeMsat + 1)
                 /\ MapHas(payments', h)
                 /\ MapGet(payments', h) = p]_vars

\* payInvoice has returned the payment of the 1999 msat invoice, fee 1 msat,
\* and the registry holds it.
C11_Witness ==
    /\ returned.op = "payInvoice"
    /\ returned.value.amountMsat = 1999
    /\ returned.value.feeMsat = 1
    /\ MapHas(payments, "h3")
    /\ MapGet(payments, "h3") = returned.value

\* The sum of a sequence of numbers.
RECURSIVE SumSeq(_)
SumSeq(s) == IF s = <<>> THEN 0 ELSE Head(s) + SumSeq(Tail(s))

\* C12: getBalance returns totalMsat = the sum of localBalanceMsat over the
\* registered Open channels and spendableMsat = the sum of
\* floor(0.99 * localBalanceMsat) over the registered usable channels; for a
\* single channel of 1,000,000 msat with 100,000 msat pushed that is 900,000
\* and 891,000.
C12_BalanceFormula ==
    [][GetBalanceCall =>
          /\ returned'.op = "getBalance"
          /\ returned'.value.totalMsat =
                SumSeq([i \in 1..Len(ListChannels) |->
                          IF ListChannels[i].state = Open
                          THEN ListChannels[i].localBalanceMsat ELSE 0])
          /\ returned'.value.spendableMsat =
                SumSeq([i \in 1..Len(ListChannels) |->
                          IF ListChannels[i].isUsable
                          THEN (99 * ListChannels[i].localBalanceMsat) \div 100 ELSE 0])
          /\ (/\ Len(ListChannels) = 1
              /\ ListChannels[1].capacityMsat = 1000000
              /\ ListChannels[1].remoteBalanceMsat = 100000
              /\ ListChannels[1].state = Open)
             => returned'.value = [totalMsat |-> 900000, spendableMsat |-> 891000]]_vars

\* getBalance has returned 900,000 and 891,000 for the single channel of
\* 1,000,000 msat with 100,000 msat pushed.
C12_Witness ==
    /\ returned = Returned("getBalance", [totalMsat |-> 900000, spendableMsat |-> 891000])
    /\ Len(channels) = 1
    /\ ListChannels[1].capacityMsat = 1000000
    /\ ListChannels[1].state = Open

\* C13 (as claimed): createChannel(peer, C, P) succeeds, registers exactly one
\* more channel under an identifier that was not registered, Open and usable
\* with local balance C - P and remote balance P, takes numChannels and
\* numUsableChannels up by one each, and leaves the channels registered
\* before and the payments as they were.
C13_CreateChannelEffect ==
    [][\A peer \in Peers, a \in ChannelArgs :
          CreateChannel(peer, a[1], a[2]) =>
              LET n == Len(channels)
                  new == ListChannels'[n + 1]
              IN /\ result' = Ok
                 /\ Len(channels') = n + 1
                 /\ ~Registered(channels'[n + 1][1])
                 /\ new.state = Open
                 /\ new.isUsable = TRUE
                 /\ new.localBalanceMsat = a[1] - a[2]
                 /\ new.remoteBalanceMsat = a[2]
                 /\ nodeInfo'.numChannels = nodeInfo.numChannels + 1
                 /\ nodeInfo'.numUsableChannels = nodeInfo.numUsableChannels + 1
                 /\ \A i \in 1..n : /\ channels'[i][1] = channels[i][1]
                                     /\ ListChannels'[i] = ListChannels[i]
                 /\ payments' = payments]_vars

\* A step that is a call of createChannel, or of closeChannel.
IsCreate == \E peer \in Peers, a \in ChannelArgs : CreateChannel(peer, a[1], a[2])

IsClose == \E c \in 1..(Len(heap) + 1) : CloseChannel(c)

\* C14: a call of getBalance changes nothing of the ledger and returns what
\* a second call right after it returns; and a step after which getBalance
\* returns something else is a createChannel, a closeChannel, a restoreState
\* or the firing of a close timer.
C14_GetBalanceIdempotent ==
    [][/\ (returned'.op = "getBalance" /\ GetBalanceCall) =>
             /\ UNCHANGED <<heap, channels, payments, nodeInfo, timers, saved>>
             /\ returned'.value = GetBalance'
       /\ (<<heap, channels>>' # <<heap, channels>> /\ GetBalance' # GetBalance) =>
             (IsCreate \/ IsClose \/ IsRestore \/ CloseTimer)]_vars

\* getBalance has returned the balance of a ledger with a usable channel and
\* a payment, and the ledger still gives that balance: a second call is about
\* to be made.
C14_Witness ==
    /\ returned.op = "getBalance"
    /\ returned.value = GetBalance
    /\ returned.value.spendableMsat > 0
    /\ Len(payments) > 0
    /\ calls < MaxCalls

\* C15: estimateFee(a) returns baseFee 1000, proportionalMillionths 1000,
\* estimatedDurationSeconds 60 and estimatedFeeMsat = 1000 +
\* floor(a * 1000 / 1,000,000), whatever the ledger holds; for 1,000,000 msat
\* the estimate is 2000.
C15_EstimateFeeFormula ==
    [][\A a \in FeeAmounts :
          EstimateFeeCall(a) =>
              LET e == returned'.value
                  prop == e.estimatedFeeMsat - 1000
              IN /\ returned'.op = "estimateFee"
                 /\ e.baseFee = 1000
                 /\ e.proportionalMillionths = 1000
                 /\ e.estimatedDurationSeconds = 60
                 /\ 1000000 * prop <= a * 1000
                 /\ a * 1000 < 1000000 * (prop + 1)
                 /\ (a = 1000000) => (e.estimatedFeeMsat = 2000)
                 /\ UNCHANGED <<heap, channels, payments, nodeInfo, timers, saved>>]_vars

\* estimateFee has returned 2000 for 1,000,000 msat on a ledger that holds a
\* channel and a payment.
C15_Witness ==
    /\ returned.op = "estimateFee"
    /\ returned.value.estimatedFeeMsat = 2000
    /\ Len(channels) > 0
    /\ Len(payments) > 0

\* C16: listPayments returns every payment of the registry exactly once,
\* the timestamps never increasing along the list.
C16_ListPaymentsSorted ==
    [][ListPaymentsCall =>
          LET l == returned'.value
          IN /\ returned'.op = "listPayments"
             /\ Len(l) = Len(payments)
             /\ \A k \in 1..Len(payments) :
                   Cardinality({i \in 1..Len(l) : l[i] = payments[k][2]}) = 1
             /\ \A i \in 1..(Len(l) - 1) : l[i].timestamp >= l[i + 1].timestamp]_vars

\* listPayments has returned two payments, the later one first, that the
\* registry holds in the other order.
C16_Witness ==
    /\ returned.op = "listPayments"
    /\ Len(returned.value) = 2
    /\ returned.value[1].timestamp > returned.value[2].timestamp
    /\ MapValues(payments) = <<returned.value[2], returned.value[1]>>

\* C17: every step keeps every payment hash of the registry in the registry,
\* or is a restoreState.
C17_PaymentsOnlyGrow ==
    [][MapKeys(payments) \subseteq MapKeys(payments') \/ IsRestore]_vars

\* Two payments are on record and a closeChannel came after them.
C17_Witness ==
    /\ Cardinality(MapKeys(payments)) = 2
    /\ returned.op = "closeChannel"

\* C18 (as claimed): the channels of a list that getChannelStatus has
\* returned keep their state, usability and balances through every later
\* step.
C18_ListIsSnapshot ==
    [][returned.op = "getChannelStatus" =>
          \A i \in 1..Len(returned.value) :
              LET before == heap[returned.value[i]]
                  after == heap'[returned.value[i]]
              IN /\ after.state = before.state
                 /\ after.isUsable = before.isUsable
                 /\ after.localBalanceMsat = before.localBalanceMsat
                 /\ after.remoteBalanceMsat = before.remoteBalanceMsat]_vars

\* C19 (as claimed): the node id and the alias are those the constructor
\* set, in every state.
C19_NodeIdentityImmutable ==
    /\ nodeInfo.nodeId = InitialNodeInfo.nodeId
    /\ nodeInfo.alias = InitialNodeInfo.alias

\* C19 (amended): every step leaves the node id and the alias as they were,
\* or is a restoreState.
C19_IdentityChangedByRestoreOnly ==
    [][\/ /\ nodeInfo'.defined = nodeInfo.defined
          /\ nodeInfo'.nodeId = nodeInfo.nodeId
          /\ nodeInfo'.alias = nodeInfo.alias
       \/ IsRestore]_vars

\* A channel was created and closed and its removal has fired, both
\* counters having moved, and the node id is the constructor's.
C19_Witness ==
    /\ nodeInfo.defined
    /\ nodeInfo.nodeId = InitialNodeInfo.nodeId
    /\ nodeInfo.numChannels = 0
    /\ \E a \in 1..Len(heap) : heap[a].state = Closed

\* C23 (as claimed): there is a hash function under which every stored
\* Payment that carries a preimage is stored under the hash of that
\* preimage.
C23_HashOfPreimage ==
    \E sha256 \in [Preimages -> {"h1", "h2", "h3"}] :
        \A i \in 1..Len(payments) :
            payments[i][2].paymentPreimage # UNDEFINED =>
                payments[i][1] = sha256[payments[i][2].paymentPreimage]

\* C27 (as claimed): a restoreState that fails leaves the node info, the
\* channel registry and the payment registry as they were.
C27_RestoreAtomicOnFailure ==
    [][(~result'.ok /\ IsRestore) => UNCHANGED <<nodeInfo, channels, payments>>]_vars

\* C28 (as claimed): the channel that the firing of a close timer deletes
\* from the registry is in state Closing when the timer fires.
C28_TimerDeletesClosingOnly ==
    [][(CloseTimer /\ Registered(Head(timers).channelId)) =>
          heap[MapGet(channels, Head(timers).channelId)].state = Closing]_vars

\* C29: every registered channel is usable if and only if it is Open, and is
\* Open or Closing.
C29_UsableIffOpen ==
    \A i \in 1..Len(channels) :
        LET channel == heap[channels[i][2]]
        IN /\ channel.isUsable = (channel.state = Open)
           /\ channel.state \in {Open, Closing}

\* restoreState has put back a backup taken while a channel was closing:
\* the registry holds a new Channel object, Closing and not usable.
C29_Witness ==
    /\ returned.op = "restoreState"
    /\ \E i \in 1..Len(channels) :
          /\ channels[i][2] > 1
          /\ heap[channels[i][2]].state = Closing
          /\ ~heap[channels[i][2]].isUsable

\* C30: a payInvoice that returns a Payment leaves the channels, the
\* registry of channels, the node info with its counters, the pending timers
\* and what getBalance returns as they were; a payInvoice that throws does
\* so on a text that does not decode only, whatever channels there are, and
\* leaves them as they were too.
C30_PayInvoiceFrame ==
    [][/\ (/\ returned'.op = "payInvoice"
           /\ calls' # calls
           /\ PayInvoice(returned'.value.bolt11, returned'.value.paymentPreimage)) =>
              /\ UNCHANGED <<heap, channels, nodeInfo, timers>>
              /\ GetBalance' = GetBalance
       /\ \A inv \in Invoices, r \in Preimages :
              (/\ result'.error = "Failed to pay invoice"
               /\ calls' # calls
               /\ PayInvoice(inv, r)) =>
                  /\ ~Bolt11Decode(inv).ok
                  /\ UNCHANGED <<heap, channels, nodeInfo, timers>>
                  /\ GetBalance' = GetBalance]_vars

\* The 250,000,000 msat invoice has been paid by a ledger that holds no
\* channel, and so has nothing to spend.
C30_Witness ==
    /\ returned.op = "payInvoice"
    /\ returned.value.amountMsat = 250000000
    /\ channels = <<>>
    /\ GetBalance.spendableMsat = 0

\* C25 (as claimed): a channel that is registered and Closing is eventually
\* not registered, when every pending timer fires in the end.
C25_ClosingEventuallyRemoved ==
    \A channelId \in 1..MaxCalls :
        (/\ Registered(channelId)
         /\ heap[MapGet(channels, channelId)].state = Closing)
            ~> ~Registered(channelId)

\* C21 (as claimed): ldk_decode_invoice on an invoice with timestamp t and
\* expiry e, e being 3600 when the invoice carries no expire_time, reports
\* isExpired = (t + e < now), now in seconds.
C21_IsExpiredExactly ==
    [][\A inv \in Invoices :
          (/\ returned'.op = "ldk_decode_invoice"
           /\ Bolt11Decode(inv).ok
           /\ DecodeInvoiceTool(inv)) =>
              LET t == Bolt11Decode(inv).timestamp
                  e == IF Bolt11Decode(inv).expire_time = <<>> THEN 3600
                       ELSE Bolt11Decode(inv).expire_time[1]
              IN returned'.value.isExpired = ((t + e) * 1000 < now)]_vars

\* C22: a tool call ends with an envelope and no exception; the envelope
\* says success exactly when the ledger operation went through, and
\* otherwise carries the message of the ledger's error: that of decodeInvoice
\* and payInvoice on a text that does not decode, that of closeChannel on an
\* identifier its registry does not hold.
C22_ToolErrorEnvelope ==
    [][returned'.op \in ToolNames =>
          LET envelope == returned'.value
          IN /\ result'.ok
             /\ envelope.success \in BOOLEAN
             /\ ~envelope.success => envelope.error # "" /\ envelope.isError
             /\ \A inv \in Invoices :
                   (returned'.op = "ldk_decode_invoice" /\ DecodeInvoiceTool(inv)) =>
                       /\ envelope.success = Bolt11Decode(inv).ok
                       /\ ~envelope.success =>
                              envelope.error = "Failed to decode invoice"
             /\ \A inv \in Invoices, m \in MaxFeeArgs, r \in ToolPreimages :
                   (returned'.op = "ldk_pay_invoice" /\ PayInvoiceTool(inv, m, r)) =>
                       /\ envelope.success = Bolt11Decode(inv).ok
                       /\ ~envelope.success =>
                              envelope.error = "Failed to pay invoice"
             /\ \A c \in 1..MaxCalls :
                   (returned'.op = "ldk_close_channel" /\ CloseChannelTool(c)) =>
                       /\ envelope.success =
                              MapHas(toolServices["ldk_close_channel"].channels, c)
                       /\ ~envelope.success => envelope.error = "Channel not found"
             /\ returned'.op \in {"ldk_create_channel", "ldk_channel_status",
                                  "ldk_get_balance", "ldk_list_payments"} =>
                   envelope.success]_vars

\* ldk_decode_invoice on a text that is no invoice has given the envelope of
\* its catch block, after a payment went through.
C22_Witness ==
    /\ returned.op = "ldk_decode_invoice"
    /\ ~returned.value.success
    /\ returned.value.error = "Failed to decode invoice"
    /\ toolServices["ldk_pay_invoice"].payments # <<>>

\* C24 (as claimed): ldk_pay_invoice called with maxFeeSats = M, 10 when it
\* is absent, reports success only for a recorded payment whose feeMsat is
\* at most M * 1000.
C24_FeeWithinMaximum ==
    [][\A inv \in Invoices, m \in MaxFeeArgs, r \in ToolPreimages :
          (/\ returned'.op = "ldk_pay_invoice"
           /\ returned'.value.success
           /\ PayInvoiceTool(inv, m, r)) =>
              LET maxFeeSats == IF m = <<>> THEN 10 ELSE m[1]
                  payment == MapGet(toolServices'["ldk_pay_invoice"].payments,
                                    returned'.value.payment.paymentHash)
              IN payment.feeMsat <= maxFeeSats * 1000]_vars

\* C26 (as claimed): right after ldk_create_channel has reported a channel,
\* ldk_channel_status lists that channel, ldk_get_balance counts its local
\* balance and ldk_close_channel closes it; right after ldk_pay_invoice has
\* reported a payment, ldk_list_payments lists it.
C26_OneLedger ==
    [][/\ (returned.op = "ldk_create_channel" /\ returned.value.success) =>
             LET created == returned.value.channel
             IN /\ (returned'.op = "ldk_channel_status"
                       /\ GetChannelStatusTool(ABSENT)) =>
                       \E i \in 1..Len(returned'.value.channels) :
                           returned'.value.channels[i].channelId = created.channelId
                /\ (returned'.op = "ldk_get_balance" /\ GetBalanceTool) =>
                       returned'.value.balance.totalSats >= created.localBalanceSats
                /\ (returned'.op = "ldk_close_channel"
                       /\ CloseChannelTool(created.channelId)) =>
                       returned'.value.success
       /\ (returned.op = "ldk_pay_invoice" /\ returned.value.success) =>
             ((returned'.op = "ldk_list_payments" /\ ListPaymentsTool(<<>>)) =>
                 \E i \in 1..Len(returned'.value.payments) :
                     returned'.value.payments[i].paymentHash
                         = returned.value.payment.paymentHash)]_vars

====
